---- MODULE Spec2Model ----
(***************************************************************************)
(* A model of examples/python/KMSHeader.py: the KMS header codec (ARN to   *)
(* 35 bytes and back, the algorithm byte, the full and the partial header  *)
(* parsing) and the header object with its setters.                        *)
(*                                                                         *)
(* Representation of the Python values:                                    *)
(*   str    a sequence of one-character strings                            *)
(*   bytes  a sequence of numbers 0..255                                   *)
(*   int    a record [neg, mag], mag the big-endian sequence of the        *)
(*          hexadecimal digits (0..15) of the magnitude, no leading zero   *)
(*          (accounts are 128-bit numbers, beyond TLC's integers)          *)
(*   None   the empty tuple, a value x that may be None the tuple <<x>>    *)
(*   an argument whose type the code tests is tagged by its type:          *)
(*          [str |-> chars], [bytes |-> data], [none |-> TRUE]             *)
(* The names of algorithms and key specs are TLA+ strings.                 *)
(* A call that can raise returns [err |-> the exception or "none",         *)
(* val |-> the value].                                                     *)
(***************************************************************************)
EXTENDS Integers, Sequences, FiniteSets, TLC

None == <<>>
Some(x) == <<x>>

Ok(v) == [err |-> "none", val |-> v]
Raise(e) == [err |-> e, val |-> <<>>]

\* binascii.Error is a subclass of ValueError: "except ValueError" catches both.
IsValueError(e) == e \in {"ValueError", "binascii.Error"}

Slice(s, from, to) == SubSeq(s, from + 1, IF to < Len(s) THEN to ELSE Len(s))
SliceFrom(s, from) == SubSeq(s, from + 1, Len(s))

Fill(n, v) == [i \in 1..n |-> v]

----------------------------------------------------------------------------
(* Characters, hexadecimal digits, Python's int.                           *)

HexChars == <<"0", "1", "2", "3", "4", "5", "6", "7", "8", "9",
              "a", "b", "c", "d", "e", "f">>
UpperHexChars == <<"0", "1", "2", "3", "4", "5", "6", "7", "8", "9",
                   "A", "B", "C", "D", "E", "F">>
DecimalChars == <<"0", "1", "2", "3", "4", "5", "6", "7", "8", "9">>
LowerLetters == {"a", "b", "c", "d", "e", "f", "g", "h", "i", "j", "k", "l", "m",
                 "n", "o", "p", "q", "r", "s", "t", "u", "v", "w", "x", "y", "z"}

IsDigit(c) == \E i \in 1..10 : DecimalChars[i] = c
DigitValue(c) == (CHOOSE i \in 1..10 : DecimalChars[i] = c) - 1

\* A character beyond U+00FF cannot stand in a TLA+ string and is written by
\* its name: the one-element string <<"U+06F1">> is the Python string
\* "\u06f1".
\* The decimal digits int() takes: 0..9 of ASCII and of the 65 other scripts
\* of Unicode 14.0 (category Nd), each row from its zero to its nine.
DecimalDigitRuns == <<
    <<"0", "1", "2", "3", "4",
      "5", "6", "7", "8", "9">>,
    <<"U+0660", "U+0661", "U+0662", "U+0663", "U+0664",
      "U+0665", "U+0666", "U+0667", "U+0668", "U+0669">>,
    <<"U+06F0", "U+06F1", "U+06F2", "U+06F3", "U+06F4",
      "U+06F5", "U+06F6", "U+06F7", "U+06F8", "U+06F9">>,
    <<"U+07C0", "U+07C1", "U+07C2", "U+07C3", "U+07C4",
      "U+07C5", "U+07C6", "U+07C7", "U+07C8", "U+07C9">>,
    <<"U+0966", "U+0967", "U+0968", "U+0969", "U+096A",
      "U+096B", "U+096C", "U+096D", "U+096E", "U+096F">>,
    <<"U+09E6", "U+09E7", "U+09E8", "U+09E9", "U+09EA",
      "U+09EB", "U+09EC", "U+09ED", "U+09EE", "U+09EF">>,
    <<"U+0A66", "U+0A67", "U+0A68", "U+0A69", "U+0A6A",
      "U+0A6B", "U+0A6C", "U+0A6D", "U+0A6E", "U+0A6F">>,
    <<"U+0AE6", "U+0AE7", "U+0AE8", "U+0AE9", "U+0AEA",
      "U+0AEB", "U+0AEC", "U+0AED", "U+0AEE", "U+0AEF">>,
    <<"U+0B66", "U+0B67", "U+0B68", "U+0B69", "U+0B6A",
      "U+0B6B", "U+0B6C", "U+0B6D", "U+0B6E", "U+0B6F">>,
    <<"U+0BE6", "U+0BE7", "U+0BE8", "U+0BE9", "U+0BEA",
      "U+0BEB", "U+0BEC", "U+0BED", "U+0BEE", "U+0BEF">>,
    <<"U+0C66", "U+0C67", "U+0C68", "U+0C69", "U+0C6A",
      "U+0C6B", "U+0C6C", "U+0C6D", "U+0C6E", "U+0C6F">>,
    <<"U+0CE6", "U+0CE7", "U+0CE8", "U+0CE9", "U+0CEA",
      "U+0CEB", "U+0CEC", "U+0CED", "U+0CEE", "U+0CEF">>,
    <<"U+0D66", "U+0D67", "U+0D68", "U+0D69", "U+0D6A",
      "U+0D6B", "U+0D6C", "U+0D6D", "U+0D6E", "U+0D6F">>,
    <<"U+0DE6", "U+0DE7", "U+0DE8", "U+0DE9", "U+0DEA",
      "U+0DEB", "U+0DEC", "U+0DED", "U+0DEE", "U+0DEF">>,
    <<"U+0E50", "U+0E51", "U+0E52", "U+0E53", "U+0E54",
      "U+0E55", "U+0E56", "U+0E57", "U+0E58", "U+0E59">>,
    <<"U+0ED0", "U+0ED1", "U+0ED2", "U+0ED3", "U+0ED4",
      "U+0ED5", "U+0ED6", "U+0ED7", "U+0ED8", "U+0ED9">>,
    <<"U+0F20", "U+0F21", "U+0F22", "U+0F23", "U+0F24",
      "U+0F25", "U+0F26", "U+0F27", "U+0F28", "U+0F29">>,
    <<"U+1040", "U+1041", "U+1042", "U+1043", "U+1044",
      "U+1045", "U+1046", "U+1047", "U+1048", "U+1049">>,
    <<"U+1090", "U+1091", "U+1092", "U+1093", "U+1094",
      "U+1095", "U+1096", "U+1097", "U+1098", "U+1099">>,
    <<"U+17E0", "U+17E1", "U+17E2", "U+17E3", "U+17E4",
      "U+17E5", "U+17E6", "U+17E7", "U+17E8", "U+17E9">>,
    <<"U+1810", "U+1811", "U+1812", "U+1813", "U+1814",
      "U+1815", "U+1816", "U+1817", "U+1818", "U+1819">>,
    <<"U+1946", "U+1947", "U+1948", "U+1949", "U+194A",
      "U+194B", "U+194C", "U+194D", "U+194E", "U+194F">>,
    <<"U+19D0", "U+19D1", "U+19D2", "U+19D3", "U+19D4",
      "U+19D5", "U+19D6", "U+19D7", "U+19D8", "U+19D9">>,
    <<"U+1A80", "U+1A81", "U+1A82", "U+1A83", "U+1A84",
      "U+1A85", "U+1A86", "U+1A87", "U+1A88", "U+1A89">>,
    <<"U+1A90", "U+1A91", "U+1A92", "U+1A93", "U+1A94",
      "U+1A95", "U+1A96", "U+1A97", "U+1A98", "U+1A99">>,
    <<"U+1B50", "U+1B51", "U+1B52", "U+1B53", "U+1B54",
      "U+1B55", "U+1B56", "U+1B57", "U+1B58", "U+1B59">>,
    <<"U+1BB0", "U+1BB1", "U+1BB2", "U+1BB3", "U+1BB4",
      "U+1BB5", "U+1BB6", "U+1BB7", "U+1BB8", "U+1BB9">>,
    <<"U+1C40", "U+1C41", "U+1C42", "U+1C43", "U+1C44",
      "U+1C45", "U+1C46", "U+1C47", "U+1C48", "U+1C49">>,
    <<"U+1C50", "U+1C51", "U+1C52", "U+1C53", "U+1C54",
      "U+1C55", "U+1C56", "U+1C57", "U+1C58", "U+1C59">>,
    <<"U+A620", "U+A621", "U+A622", "U+A623", "U+A624",
      "U+A625", "U+A626", "U+A627", "U+A628", "U+A629">>,
    <<"U+A8D0", "U+A8D1", "U+A8D2", "U+A8D3", "U+A8D4",
      "U+A8D5", "U+A8D6", "U+A8D7", "U+A8D8", "U+A8D9">>,
    <<"U+A900", "U+A901", "U+A902", "U+A903", "U+A904",
      "U+A905", "U+A906", "U+A907", "U+A908", "U+A909">>,
    <<"U+A9D0", "U+A9D1", "U+A9D2", "U+A9D3", "U+A9D4",
      "U+A9D5", "U+A9D6", "U+A9D7", "U+A9D8", "U+A9D9">>,
    <<"U+A9F0", "U+A9F1", "U+A9F2", "U+A9F3", "U+A9F4",
      "U+A9F5", "U+A9F6", "U+A9F7", "U+A9F8", "U+A9F9">>,
    <<"U+AA50", "U+AA51", "U+AA52", "U+AA53", "U+AA54",
      "U+AA55", "U+AA56", "U+AA57", "U+AA58", "U+AA59">>,
    <<"U+ABF0", "U+ABF1", "U+ABF2", "U+ABF3", "U+ABF4",
      "U+ABF5", "U+ABF6", "U+ABF7", "U+ABF8", "U+ABF9">>,
    <<"U+FF10", "U+FF11", "U+FF12", "U+FF13", "U+FF14",
      "U+FF15", "U+FF16", "U+FF17", "U+FF18", "U+FF19">>,
    <<"U+104A0", "U+104A1", "U+104A2", "U+104A3", "U+104A4",
      "U+104A5", "U+104A6", "U+104A7", "U+104A8", "U+104A9">>,
    <<"U+10D30", "U+10D31", "U+10D32", "U+10D33", "U+10D34",
      "U+10D35", "U+10D36", "U+10D37", "U+10D38", "U+10D39">>,
    <<"U+11066", "U+11067", "U+11068", "U+11069", "U+1106A",
      "U+1106B", "U+1106C", "U+1106D", "U+1106E", "U+1106F">>,
    <<"U+110F0", "U+110F1", "U+110F2", "U+110F3", "U+110F4",
      "U+110F5", "U+110F6", "U+110F7", "U+110F8", "U+110F9">>,
    <<"U+11136", "U+11137", "U+11138", "U+11139", "U+1113A",
      "U+1113B", "U+1113C", "U+1113D", "U+1113E", "U+1113F">>,
    <<"U+111D0", "U+111D1", "U+111D2", "U+111D3", "U+111D4",
      "U+111D5", "U+111D6", "U+111D7", "U+111D8", "U+111D9">>,
    <<"U+112F0", "U+112F1", "U+112F2", "U+112F3", "U+112F4",
      "U+112F5", "U+112F6", "U+112F7", "U+112F8", "U+112F9">>,
    <<"U+11450", "U+11451", "U+11452", "U+11453", "U+11454",
      "U+11455", "U+11456", "U+11457", "U+11458", "U+11459">>,
    <<"U+114D0", "U+114D1", "U+114D2", "U+114D3", "U+114D4",
      "U+114D5", "U+114D6", "U+114D7", "U+114D8", "U+114D9">>,
    <<"U+11650", "U+11651", "U+11652", "U+11653", "U+11654",
      "U+11655", "U+11656", "U+11657", "U+11658", "U+11659">>,
    <<"U+116C0", "U+116C1", "U+116C2", "U+116C3", "U+116C4",
      "U+116C5", "U+116C6", "U+116C7", "U+116C8", "U+116C9">>,
    <<"U+11730", "U+11731", "U+11732", "U+11733", "U+11734",
      "U+11735", "U+11736", "U+11737", "U+11738", "U+11739">>,
    <<"U+118E0", "U+118E1", "U+118E2", "U+118E3", "U+118E4",
      "U+118E5", "U+118E6", "U+118E7", "U+118E8", "U+118E9">>,
    <<"U+11950", "U+11951", "U+11952", "U+11953", "U+11954",
      "U+11955", "U+11956", "U+11957", "U+11958", "U+11959">>,
    <<"U+11C50", "U+11C51", "U+11C52", "U+11C53", "U+11C54",
      "U+11C55", "U+11C56", "U+11C57", "U+11C58", "U+11C59">>,
    <<"U+11D50", "U+11D51", "U+11D52", "U+11D53", "U+11D54",
      "U+11D55", "U+11D56", "U+11D57", "U+11D58", "U+11D59">>,
    <<"U+11DA0", "U+11DA1", "U+11DA2", "U+11DA3", "U+11DA4",
      "U+11DA5", "U+11DA6", "U+11DA7", "U+11DA8", "U+11DA9">>,
    <<"U+16A60", "U+16A61", "U+16A62", "U+16A63", "U+16A64",
      "U+16A65", "U+16A66", "U+16A67", "U+16A68", "U+16A69">>,
    <<"U+16AC0", "U+16AC1", "U+16AC2", "U+16AC3", "U+16AC4",
      "U+16AC5", "U+16AC6", "U+16AC7", "U+16AC8", "U+16AC9">>,
    <<"U+16B50", "U+16B51", "U+16B52", "U+16B53", "U+16B54",
      "U+16B55", "U+16B56", "U+16B57", "U+16B58", "U+16B59">>,
    <<"U+1D7CE", "U+1D7CF", "U+1D7D0", "U+1D7D1", "U+1D7D2",
      "U+1D7D3", "U+1D7D4", "U+1D7D5", "U+1D7D6", "U+1D7D7">>,
    <<"U+1D7D8", "U+1D7D9", "U+1D7DA", "U+1D7DB", "U+1D7DC",
      "U+1D7DD", "U+1D7DE", "U+1D7DF", "U+1D7E0", "U+1D7E1">>,
    <<"U+1D7E2", "U+1D7E3", "U+1D7E4", "U+1D7E5", "U+1D7E6",
      "U+1D7E7", "U+1D7E8", "U+1D7E9", "U+1D7EA", "U+1D7EB">>,
    <<"U+1D7EC", "U+1D7ED", "U+1D7EE", "U+1D7EF", "U+1D7F0",
      "U+1D7F1", "U+1D7F2", "U+1D7F3", "U+1D7F4", "U+1D7F5">>,
    <<"U+1D7F6", "U+1D7F7", "U+1D7F8", "U+1D7F9", "U+1D7FA",
      "U+1D7FB", "U+1D7FC", "U+1D7FD", "U+1D7FE", "U+1D7FF">>,
    <<"U+1E140", "U+1E141", "U+1E142", "U+1E143", "U+1E144",
      "U+1E145", "U+1E146", "U+1E147", "U+1E148", "U+1E149">>,
    <<"U+1E2F0", "U+1E2F1", "U+1E2F2", "U+1E2F3", "U+1E2F4",
      "U+1E2F5", "U+1E2F6", "U+1E2F7", "U+1E2F8", "U+1E2F9">>,
    <<"U+1E950", "U+1E951", "U+1E952", "U+1E953", "U+1E954",
      "U+1E955", "U+1E956", "U+1E957", "U+1E958", "U+1E959">>,
    <<"U+1FBF0", "U+1FBF1", "U+1FBF2", "U+1FBF3", "U+1FBF4",
      "U+1FBF5", "U+1FBF6", "U+1FBF7", "U+1FBF8", "U+1FBF9">> >>
IsDecimalDigit(c) ==
    \E r \in 1..Len(DecimalDigitRuns) : \E i \in 1..10 : DecimalDigitRuns[r][i] = c
DecimalValue(c) ==
    CHOOSE v \in 0..9 : \E r \in 1..Len(DecimalDigitRuns) : DecimalDigitRuns[r][v + 1] = c
\* int() reads every decimal digit as the ASCII digit of its value.
ToAsciiDigits(text) ==
    [i \in 1..Len(text) |->
        IF IsDecimalDigit(text[i]) THEN DecimalChars[DecimalValue(text[i]) + 1]
        ELSE text[i]]
IsLowerHex(c) == \E i \in 1..16 : HexChars[i] = c
IsHex(c) == \E i \in 1..16 : HexChars[i] = c \/ UpperHexChars[i] = c
HexValue(c) == (CHOOSE i \in 1..16 : HexChars[i] = c \/ UpperHexChars[i] = c) - 1

\* binascii.hexlify(data).decode(): two lowercase hex digits per byte.
hexlify(data) ==
    [i \in 1..(2 * Len(data)) |->
        IF i % 2 = 1 THEN HexChars[(data[(i + 1) \div 2] \div 16) + 1]
                     ELSE HexChars[(data[i \div 2] % 16) + 1]]

\* binascii.unhexlify(hexstr): binascii.Error on an odd length or a non-hex digit.
unhexlify(hexstr) ==
    IF Len(hexstr) % 2 = 1 \/ \E i \in 1..Len(hexstr) : ~IsHex(hexstr[i])
    THEN Raise("binascii.Error")
    ELSE Ok([i \in 1..(Len(hexstr) \div 2) |->
                16 * HexValue(hexstr[2 * i - 1]) + HexValue(hexstr[2 * i])])

StripZeros(mag) ==
    LET first == CHOOSE k \in 1..(Len(mag) + 1) :
                     /\ k = Len(mag) + 1 \/ mag[k] # 0
                     /\ \A j \in 1..(k - 1) : mag[j] = 0
    IN  SubSeq(mag, first, Len(mag))

PyInt(neg, mag) == [neg |-> neg /\ StripZeros(mag) # <<>>, mag |-> StripZeros(mag)]

\* mag * m + carry, for a small m, on the hexadecimal digits.
RECURSIVE MulAdd(_, _, _)
MulAdd(mag, m, carry) ==
    IF mag = <<>>
    THEN (IF carry = 0 THEN <<>> ELSE <<carry>>)
    ELSE LET v == mag[Len(mag)] * m + carry
         IN  Append(MulAdd(SubSeq(mag, 1, Len(mag) - 1), m, v \div 16), v % 16)

\* The quotient digits and the remainder of mag divided by a small d.
RECURSIVE DivMod(_, _, _, _)
DivMod(mag, d, i, rem) ==
    IF i > Len(mag) THEN [q |-> <<>>, r |-> rem]
    ELSE LET v == rem * 16 + mag[i]
             rest == DivMod(mag, d, i + 1, v % d)
         IN  [q |-> <<v \div d>> \o rest.q, r |-> rest.r]

\* The hexadecimal digits of the number written with the decimal digits.
RECURSIVE DecimalToMag(_)
DecimalToMag(digits) ==
    IF digits = <<>> THEN <<>>
    ELSE MulAdd(DecimalToMag(SubSeq(digits, 1, Len(digits) - 1)), 10,
                DigitValue(digits[Len(digits)]))

\* The decimal digits (characters) of a magnitude.
RECURSIVE MagToDecimal(_)
MagToDecimal(mag) ==
    IF mag = <<>> THEN <<>>
    ELSE LET qr == DivMod(mag, 10, 1, 0)
         IN  Append(MagToDecimal(StripZeros(qr.q)), DecimalChars[qr.r + 1])

\* A small natural number as a Python int, and back (for one-byte values).
RECURSIVE NatToMag(_)
NatToMag(n) == IF n = 0 THEN <<>> ELSE Append(NatToMag(n \div 16), n % 16)
RECURSIVE MagToNat(_)
MagToNat(mag) ==
    IF mag = <<>> THEN 0
    ELSE 16 * MagToNat(SubSeq(mag, 1, Len(mag) - 1)) + mag[Len(mag)]
SmallInt(n) == PyInt(FALSE, NatToMag(n))

\* The whitespace int() skips around the digits: the blank, tab, line feed,
\* form feed, carriage return and vertical tab (0x0b, the character itself),
\* and the spaces of Unicode beyond ASCII, by name.  U+0085 and U+00A0 stand
\* here also as the characters themselves, which TLC reads in a UTF-8 locale.
Whitespace ==
    {" ", "\t", "\n", "\f", "\r",
     "", "", " ",
     "U+0085", "U+00A0", "U+1680", "U+2000", "U+2001", "U+2002",
     "U+2003", "U+2004", "U+2005", "U+2006", "U+2007", "U+2008",
     "U+2009", "U+200A", "U+2028", "U+2029", "U+202F", "U+205F",
     "U+3000"}
StripLeft(s) ==
    LET first == CHOOSE k \in 1..(Len(s) + 1) :
                     /\ k = Len(s) + 1 \/ s[k] \notin Whitespace
                     /\ \A j \in 1..(k - 1) : s[j] \in Whitespace
    IN  SubSeq(s, first, Len(s))
StripRight(s) ==
    LET last == CHOOSE k \in 0..Len(s) :
                    /\ k = 0 \/ s[k] \notin Whitespace
                    /\ \A j \in (k + 1)..Len(s) : s[j] \in Whitespace
    IN  SubSeq(s, 1, last)

\* sys.get_int_max_str_digits() as the interpreter starts: int() of a str
\* and str() of an int raise ValueError beyond that many decimal digits.
int_max_str_digits == 4300

\* int(text) of a str: surrounding whitespace, an optional sign, decimal
\* digits (of any script) with single underscores between them, at most
\* int_max_str_digits of them (leading zeros count); ValueError otherwise.
IsDecimalLiteral(body) ==
    /\ body # <<>>
    /\ \A i \in 1..Len(body) : IsDigit(body[i]) \/ body[i] = "_"
    /\ IsDigit(body[1]) /\ IsDigit(body[Len(body)])
    /\ \A i \in 1..(Len(body) - 1) : ~(body[i] = "_" /\ body[i + 1] = "_")
\* The digits after the leading zeros, which add nothing to the value.
Significant(digits) ==
    LET first == CHOOSE k \in 1..(Len(digits) + 1) :
                     /\ k = Len(digits) + 1 \/ digits[k] # "0"
                     /\ \A j \in 1..(k - 1) : digits[j] = "0"
    IN  SubSeq(digits, first, Len(digits))
IsSigned(t) == t # <<>> /\ t[1] \in {"+", "-"}
py_int_of_str(text) ==
    LET Signed(t, body) ==
            IF ~IsDecimalLiteral(body) THEN Raise("ValueError")
            ELSE IF Len(SelectSeq(body, IsDigit)) > int_max_str_digits
            THEN Raise("ValueError")
            ELSE Ok(PyInt(t[1] = "-", DecimalToMag(Significant(SelectSeq(body, IsDigit)))))
        Stripped(t) == IF IsSigned(t) THEN Signed(t, Tail(t)) ELSE Signed(<<"+">>, t)
    IN  Stripped(StripRight(StripLeft(ToAsciiDigits(text))))

\* Arguments tagged by their Python type.
StrValue(chars) == [str |-> chars]
BytesValue(data) == [bytes |-> data]
NoneValue == [none |-> TRUE]
IsStrValue(x) == DOMAIN x = {"str"}
IsBytesValue(x) == DOMAIN x = {"bytes"}
IsNoneValue(x) == DOMAIN x = {"none"}

\* int(x): x is a str or already an int.
py_int(x) == IF IsStrValue(x) THEN py_int_of_str(x.str) ELSE Ok(x)

\* str(n) of an int: ValueError beyond int_max_str_digits decimal digits (a
\* number of more hexadecimal digits than that has more decimal ones too).
py_str(n) ==
    LET Checked(digits) ==
            IF Len(digits) > int_max_str_digits THEN Raise("ValueError")
            ELSE Ok((IF n.neg THEN <<"-">> ELSE <<>>) \o digits)
    IN  IF n.mag = <<>> THEN Ok(<<"0">>)
        ELSE IF Len(n.mag) > int_max_str_digits THEN Raise("ValueError")
        ELSE Checked(MagToDecimal(n.mag))

\* "{0:x}".format(n)
format_x(n) ==
    IF n.mag = <<>> THEN <<"0">>
    ELSE (IF n.neg THEN <<"-">> ELSE <<>>) \o [i \in 1..Len(n.mag) |-> HexChars[n.mag[i] + 1]]

----------------------------------------------------------------------------
(* The class tables. A dict is the sequence of its items, in the order of  *)
(* the source.                                                             *)

Item(k, v) == [key |-> k, value |-> v]

major_region ==
    << Item(<<"a", "f">>, <<"0", "0">>),
       Item(<<"a", "p">>, <<"0", "1">>),
       Item(<<"c", "a">>, <<"0", "2">>),
       Item(<<"e", "u">>, <<"0", "3">>),
       Item(<<"i", "l">>, <<"0", "4">>),
       Item(<<"m", "e">>, <<"0", "5">>),
       Item(<<"s", "a">>, <<"0", "6">>),
       Item(<<"u", "s">>, <<"0", "7">>),
       Item(<<"u", "s", "-", "g", "o", "v">>, <<"0", "8">>) >>

cardinal_endpoint ==
    << Item(<<"n", "o", "r", "t", "h">>, <<"0", "0">>),
       Item(<<"e", "a", "s", "t">>, <<"0", "1">>),
       Item(<<"s", "o", "u", "t", "h">>, <<"0", "2">>),
       Item(<<"w", "e", "s", "t">>, <<"0", "3">>),
       Item(<<"c", "e", "n", "t", "r", "a", "l">>, <<"0", "4">>),
       Item(<<"n", "o", "r", "t", "h", "e", "a", "s", "t">>, <<"0", "5">>),
       Item(<<"s", "o", "u", "t", "h", "e", "a", "s", "t">>, <<"0", "6">>),
       Item(<<"s", "o", "u", "t", "h", "w", "e", "s", "t">>, <<"0", "7">>),
       Item(<<"n", "o", "r", "t", "h", "w", "e", "s", "t">>, <<"0", "8">>) >>

algorithms ==
    << Item("RSA_2048", <<"0", "1">>),
       Item("RSA_3072", <<"0", "2">>),
       Item("RSA_4096", <<"0", "3">>),
       Item("RSAES_OAEP_SHA_1", <<"1", "0">>),
       Item("RSAES_OAEP_SHA_256", <<"2", "0">>) >>

algorithms_byte_size ==
    << Item("RSAES_OAEP_SHA_1", 42),
       Item("RSAES_OAEP_SHA_256", 66) >>

key_specs_byte_size ==
    << Item("RSA_2048", 256),
       Item("RSA_3072", 384),
       Item("RSA_4096", 512) >>

hash_algs == <<"RSAES_OAEP_SHA_1", "RSAES_OAEP_SHA_256">>
key_specs == <<"RSA_2048", "RSA_3072", "RSA_4096">>

Keys(dictionary) == {dictionary[i].key : i \in 1..Len(dictionary)}
Elements(list) == {list[i] : i \in 1..Len(list)}

\* dictionary[key]: KeyError when the key is absent.
dict_get(dictionary, key) ==
    IF \E i \in 1..Len(dictionary) : dictionary[i].key = key
    THEN Ok(dictionary[CHOOSE i \in 1..Len(dictionary) : dictionary[i].key = key].value)
    ELSE Raise("KeyError")

\* list(dictionary.keys())[list(dictionary.values()).index(value)]:
\* the key of the first item with that value, ValueError when there is none.
key_by_value(dictionary, value) ==
    LET hits == {i \in 1..Len(dictionary) : dictionary[i].value = value}
    IN  IF hits = {} THEN Raise("ValueError")
        ELSE Ok(dictionary[CHOOSE i \in hits : \A j \in hits : i <= j].key)

----------------------------------------------------------------------------
(* The regular expressions of the source, on the characters they read.     *)
(* A match is [match, group1, group2, group3].                             *)

ArnPrefix == <<"a", "r", "n", ":", "a", "w", "s", ":", "k", "m", "s", ":">>
ArnKeyMark == <<":", "k", "e", "y", "/">>

NoMatch == [match |-> FALSE, group1 |-> <<>>, group2 |-> <<>>, group3 |-> <<>>]
Match(g1, g2, g3) == [match |-> TRUE, group1 |-> g1, group2 |-> g2, group3 |-> g3]

\* arn_regex = ^arn:aws:kms:([^:]+):([^:]+):key/([-0-9a-f]{36})$
\* Between the prefix and ":key/" stand two non-empty colon-free parts
\* separated by one colon.  $ matches at the end of the text and before a
\* newline that ends it.
arn_regex(text) ==
    LET Split(middle, colons, keyid) ==
            IF /\ \A i \in 1..36 : keyid[i] = "-" \/ IsLowerHex(keyid[i])
               /\ Cardinality(colons) = 1
               /\ \A c \in colons : c > 1 /\ c < Len(middle)
            THEN Match(SubSeq(middle, 1, (CHOOSE c \in colons : TRUE) - 1),
                       SubSeq(middle, (CHOOSE c \in colons : TRUE) + 1, Len(middle)),
                       keyid)
            ELSE NoMatch
        Middle(middle, keyid) ==
            Split(middle, {i \in 1..Len(middle) : middle[i] = ":"}, keyid)
        Framed(n) ==
            IF /\ n >= Len(ArnPrefix) + 3 + Len(ArnKeyMark) + 36
               /\ SubSeq(text, 1, Len(ArnPrefix)) = ArnPrefix
               /\ SubSeq(text, n - 35 - Len(ArnKeyMark), n - 36) = ArnKeyMark
            THEN Middle(SubSeq(text, Len(ArnPrefix) + 1, n - 36 - Len(ArnKeyMark)),
                        SubSeq(text, n - 35, n))
            ELSE NoMatch
    IN  IF text # <<>> /\ text[Len(text)] = "\n"
        THEN Framed(Len(text) - 1)
        ELSE Framed(Len(text))

IsLowerLetter(c) == c \in LowerLetters

\* The end of the run of [a-z] (of [0-9]) that starts at position i
\* (i - 1 when the run is empty).
LetterRunEnd(text, i) ==
    CHOOSE e \in (i - 1)..Len(text) :
        /\ e = Len(text) \/ ~IsLowerLetter(text[e + 1])
        /\ \A j \in i..e : IsLowerLetter(text[j])
DigitRunEnd(text, i) ==
    CHOOSE e \in (i - 1)..Len(text) :
        /\ e = Len(text) \/ ~IsDigit(text[e + 1])
        /\ \A j \in i..e : IsDigit(text[j])

\* The pattern -([a-z]+)-([0-9]+) matches at the hyphen at i, whose run of
\* letters ends before j.
RegionTailAt(region, i, j) ==
    /\ region[i] = "-"
    /\ j > i + 1
    /\ j + 1 <= Len(region)
    /\ region[j] = "-"
    /\ IsDigit(region[j + 1])

\* The place where the line of position i starts: after the last newline
\* before i.
LineStart(text, i) ==
    LET newlines == {k \in 1..(i - 1) : text[k] = "\n"}
    IN  IF newlines = {} THEN 1
        ELSE 1 + CHOOSE k \in newlines : \A m \in newlines : m <= k

\* re.search(r"(.*)-([a-z]+)-([0-9]+)", region): the pattern is not anchored.
\* The search takes the leftmost start from which it matches; (.*) does not
\* cross a newline, and being greedy it ends at the last place of its line
\* where the rest matches.
region_regex(region) ==
    LET Groups(start, i, j) ==
            Match(SubSeq(region, start, i - 1), SubSeq(region, i + 1, j - 1),
                  SubSeq(region, j + 1, DigitRunEnd(region, j + 1)))
        Last(start, i) == Groups(start, i, LetterRunEnd(region, i + 1) + 1)
        InLine(start, tails) ==
            Last(start, CHOOSE k \in tails :
                            /\ LineStart(region, k) = start
                            /\ \A m \in tails : LineStart(region, m) = start => m <= k)
        Search(tails) ==
            IF tails = {} THEN NoMatch
            ELSE InLine(LineStart(region, CHOOSE k \in tails : \A m \in tails : k <= m),
                        tails)
    IN  Search({i \in 1..Len(region) :
                    RegionTailAt(region, i, LetterRunEnd(region, i + 1) + 1)})

\* re.search(r"^[0-9a-f]{n}$", text): $ matches at the end of the text and
\* before a newline that ends it.
lower_hex_regex(text, n) ==
    /\ Len(text) = n \/ (Len(text) = n + 1 /\ text[n + 1] = "\n")
    /\ \A i \in 1..n : IsLowerHex(text[i])

----------------------------------------------------------------------------
(* The codec: the private helpers of KMSHeader.                            *)

\* __regint_to_hex(region_int, desired_size=2)
regint_to_hex(region_int, desired_size) ==
    LET Pad(region_hex) ==
            IF desired_size - Len(region_hex) > 0
            THEN Ok(Fill(desired_size - Len(region_hex), "0") \o region_hex)
            ELSE Ok(region_hex)
        Format(n) == IF n.err # "none" THEN Raise(n.err) ELSE Pad(format_x(n.val))
    IN  Format(py_int(region_int))

\* __reghex_to_int(region_hex): int.from_bytes(binascii.unhexlify(region_hex), "big")
reghex_to_int(region_hex) ==
    LET FromBytes(data) ==
            IF data.err # "none" THEN Raise(data.err)
            ELSE Ok(PyInt(FALSE, [i \in 1..(2 * Len(data.val)) |->
                            IF i % 2 = 1 THEN data.val[(i + 1) \div 2] \div 16
                                         ELSE data.val[i \div 2] % 16]))
    IN  FromBytes(unhexlify(region_hex))

\* __region_to_hex(region): a region the pattern does not match makes
\* match.group fail on None (AttributeError); an unknown name is a KeyError.
region_to_hex(region) ==
    LET Join(major, cardinal, number) ==
            IF major.err # "none" THEN Raise(major.err)
            ELSE IF cardinal.err # "none" THEN Raise(cardinal.err)
            ELSE IF number.err # "none" THEN Raise(number.err)
            ELSE Ok(major.val \o cardinal.val \o number.val)
        Matched(m) ==
            IF ~m.match THEN Raise("AttributeError")
            ELSE Join(dict_get(major_region, m.group1),
                      dict_get(cardinal_endpoint, m.group2),
                      regint_to_hex(StrValue(m.group3), 2))
    IN  Matched(region_regex(region))

\* __hex_to_region(region_hex)
hex_to_region(region_hex) ==
    LET Text(names, number_str) ==
            IF number_str.err # "none" THEN Raise(number_str.err)
            ELSE Ok(names \o number_str.val)
        Join(major, cardinal, number) ==
            IF major.err # "none" THEN Raise(major.err)
            ELSE IF cardinal.err # "none" THEN Raise(cardinal.err)
            ELSE IF number.err # "none" THEN Raise(number.err)
            ELSE Text(major.val \o <<"-">> \o cardinal.val \o <<"-">>, py_str(number.val))
    IN  Join(key_by_value(major_region, Slice(region_hex, 0, 2)),
             key_by_value(cardinal_endpoint, Slice(region_hex, 2, 4)),
             reghex_to_int(SliceFrom(region_hex, 4)))

\* __keyid_to_hex(keyid): keyid.replace("-", "")
IsNotHyphen(c) == c # "-"
keyid_to_hex(keyid) == SelectSeq(keyid, IsNotHyphen)

\* __hex_to_keyid(keyid_hex)
hex_to_keyid(keyid_hex) ==
    IF ~lower_hex_regex(keyid_hex, 32) THEN Raise("AssertionError")
    ELSE Ok(Slice(keyid_hex, 0, 8) \o <<"-">> \o Slice(keyid_hex, 8, 12) \o <<"-">>
            \o Slice(keyid_hex, 12, 16) \o <<"-">> \o Slice(keyid_hex, 16, 20)
            \o <<"-">> \o SliceFrom(keyid_hex, 20))

\* __account_to_hex(account)
account_to_hex(account) == regint_to_hex(StrValue(account), 32)

\* __hex_to_account(account_hex)
hex_to_account(account_hex) ==
    LET Str(n) == IF n.err # "none" THEN Raise(n.err) ELSE py_str(n.val)
    IN  Str(reghex_to_int(account_hex))

\* __kms_arn_to_hex(arn): arn is None or <<the string>>.  re.search on None is
\* a TypeError; KeyError and ValueError of the parts become ValueError, any
\* other exception passes through.
kms_arn_to_hex(arn) ==
    LET Join(region, account, keyid) ==
            IF region.err = "KeyError" THEN Raise("ValueError")
            ELSE IF region.err # "none" THEN Raise(region.err)
            ELSE IF IsValueError(account.err) THEN Raise("ValueError")
            ELSE IF account.err # "none" THEN Raise(account.err)
            ELSE Ok(keyid \o account.val \o region.val)
        Matched(m) ==
            IF ~m.match THEN Raise("ValueError")
            ELSE Join(region_to_hex(m.group1), account_to_hex(m.group2),
                      keyid_to_hex(m.group3))
    IN  IF arn = None THEN Raise("TypeError") ELSE Matched(arn_regex(arn[1]))

\* __hex_to_kms_arn(arn_hex)
hex_to_kms_arn(arn_hex) ==
    LET Join(region, account, keyid) ==
            IF region.err # "none" THEN Raise(region.err)
            ELSE IF account.err # "none" THEN Raise(account.err)
            ELSE IF keyid.err # "none" THEN Raise(keyid.err)
            ELSE Ok(ArnPrefix \o region.val \o <<":">> \o account.val
                    \o ArnKeyMark \o keyid.val)
    IN  IF ~lower_hex_regex(arn_hex, 70) THEN Raise("ValueError")
        ELSE Join(hex_to_region(SliceFrom(arn_hex, 64)),
                  hex_to_account(Slice(arn_hex, 32, 64)),
                  hex_to_keyid(Slice(arn_hex, 0, 32)))

\* __kms_arn_to_bin(arn)
kms_arn_to_bin(arn) ==
    LET Unhex(arn_hex) ==
            IF arn_hex.err # "none" THEN Raise(arn_hex.err) ELSE unhexlify(arn_hex.val)
    IN  Unhex(kms_arn_to_hex(arn))

----------------------------------------------------------------------------
(* Bitwise operations of Python's int, on the hexadecimal digits.          *)

Bit(x, k) == (x \div (2 ^ k)) % 2
NibbleAnd(x, y) ==
    Bit(x, 0) * Bit(y, 0) + 2 * Bit(x, 1) * Bit(y, 1)
    + 4 * Bit(x, 2) * Bit(y, 2) + 8 * Bit(x, 3) * Bit(y, 3)
NibbleOr(x, y) == x + y - NibbleAnd(x, y)
PadMag(mag, n) == Fill(n - Len(mag), 0) \o mag
Wider(a, b) == IF Len(a.mag) > Len(b.mag) THEN Len(a.mag) ELSE Len(b.mag)
\* a & b and a | b of two non-negative ints
IntAnd(a, b) ==
    LET Digits(x, y) == PyInt(FALSE, [i \in 1..Len(x) |-> NibbleAnd(x[i], y[i])])
    IN  Digits(PadMag(a.mag, Wider(a, b)), PadMag(b.mag, Wider(a, b)))
IntOr(a, b) ==
    LET Digits(x, y) == PyInt(FALSE, [i \in 1..Len(x) |-> NibbleOr(x[i], y[i])])
    IN  Digits(PadMag(a.mag, Wider(a, b)), PadMag(b.mag, Wider(a, b)))
IsPositive(n) == ~n.neg /\ n.mag # <<>>

----------------------------------------------------------------------------
(* The header object.  A method is an operator on the fields (self) that   *)
(* returns [err, self, val]: the exception raised or "none", the fields    *)
(* after the call, the value returned.                                     *)

Return(self, v) == [err |-> "none", self |-> self, val |-> v]
Throw(self, e) == [err |-> e, self |-> self, val |-> <<>>]

\* __get_key_bytes(): self.key_specs_byte_size[self.key_spec]
get_key_bytes(self) ==
    IF self.key_spec = None THEN Raise("KeyError")
    ELSE dict_get(key_specs_byte_size, self.key_spec[1])

\* The name a nibble of the algorithm byte stands for:
\* __key_by_value(self.algorithms, self.__regint_to_hex(nibble_id))
algorithm_name(nibble_id) ==
    LET Lookup(id_hex) == key_by_value(algorithms, id_hex.val)
    IN  Lookup(regint_to_hex(nibble_id, 2))

\* __get_algorithm(alg_hex): the names the two nibbles stand for, key spec first
get_algorithm_list(alg_hex) ==
    LET Names(key_spec_id, algorithm_id, spec_name, alg_name) ==
            IF IsPositive(key_spec_id) /\ spec_name.err # "none" THEN Raise(spec_name.err)
            ELSE IF IsPositive(algorithm_id) /\ alg_name.err # "none" THEN Raise(alg_name.err)
            ELSE Ok((IF IsPositive(key_spec_id) THEN <<spec_name.val>> ELSE <<>>)
                    \o (IF IsPositive(algorithm_id) THEN <<alg_name.val>> ELSE <<>>))
        Nibbles(key_spec_id, algorithm_id) ==
            Names(key_spec_id, algorithm_id,
                  algorithm_name(key_spec_id), algorithm_name(algorithm_id))
        Masked(alg_id, specs, algs) ==
            IF alg_id.err # "none" THEN Raise(alg_id.err)
            ELSE Nibbles(IntAnd(alg_id.val, specs.val), IntAnd(alg_id.val, algs.val))
    IN  Masked(reghex_to_int(alg_hex), reghex_to_int(<<"0", "f">>),
               reghex_to_int(<<"f", "0">>))

\* __add_algorithm_hex(algorithm_hex): each non-zero nibble sets its field;
\* a zero nibble leaves the field as it was.
add_algorithm_hex(self, algorithm_hex) ==
    LET SetAlgorithm(self1, algorithm_id, alg_name) ==
            IF ~IsPositive(algorithm_id) THEN Return(self1, None)
            ELSE IF alg_name.err # "none" THEN Throw(self1, alg_name.err)
            ELSE Return([self1 EXCEPT !.algorithm = Some(alg_name.val)], None)
        SetKeySpec(key_spec_id, algorithm_id, spec_name) ==
            IF ~IsPositive(key_spec_id)
            THEN SetAlgorithm(self, algorithm_id, algorithm_name(algorithm_id))
            ELSE IF spec_name.err # "none" THEN Throw(self, spec_name.err)
            ELSE SetAlgorithm([self EXCEPT !.key_spec = Some(spec_name.val)],
                              algorithm_id, algorithm_name(algorithm_id))
        Nibbles(key_spec_id, algorithm_id) ==
            SetKeySpec(key_spec_id, algorithm_id, algorithm_name(key_spec_id))
        Masked(alg_id, specs, algs) ==
            IF alg_id.err # "none" THEN Throw(self, alg_id.err)
            ELSE Nibbles(IntAnd(alg_id.val, specs.val), IntAnd(alg_id.val, algs.val))
    IN  Masked(reghex_to_int(algorithm_hex), reghex_to_int(<<"0", "f">>),
               reghex_to_int(<<"f", "0">>))

\* add_algorithm(algorithm=None): algorithm is None or <<a name>>
add_algorithm(self, algorithm) ==
    IF algorithm = None THEN Return(self, None)
    ELSE IF algorithm[1] \notin Keys(algorithms) THEN Throw(self, "ValueError")
    ELSE add_algorithm_hex(self, dict_get(algorithms, algorithm[1]).val)

\* self.algorithms[name], name None or <<a name>>
algorithm_code(name) ==
    IF name = None THEN Raise("KeyError") ELSE dict_get(algorithms, name[1])

\* __algorithm_to_bin without the key spec: the algorithm's code alone.
algorithm_to_bin_without_key_spec(self) ==
    LET Code(alg_hex) ==
            IF alg_hex.err # "none" THEN Raise(alg_hex.err)
            ELSE unhexlify(alg_hex.val)
    IN  Code(algorithm_code(self.algorithm))

\* __algorithm_to_bin()
algorithm_to_bin(self) ==
    LET Combine(alg_int, spec_int) ==
            unhexlify(regint_to_hex(IntOr(alg_int.val, spec_int.val), 2).val)
        Codes(alg_hex, spec_hex) ==
            IF alg_hex.err # "none" THEN Raise(alg_hex.err)
            ELSE IF spec_hex.err # "none" THEN Raise(spec_hex.err)
            ELSE Combine(reghex_to_int(alg_hex.val), reghex_to_int(spec_hex.val))
    IN  Codes(algorithm_code(self.algorithm), algorithm_code(self.key_spec))

\* to_binary()
to_binary(self) ==
    LET WithAlgorithm(header_data, alg_bin) ==
            IF alg_bin.err # "none" THEN Throw(self, alg_bin.err)
            ELSE IF self.cipher_data = None THEN Return(self, header_data \o alg_bin.val)
            ELSE Return(self, header_data \o alg_bin.val \o self.cipher_data[1])
        WithArn(arn_bin) ==
            IF arn_bin.err # "none" THEN Throw(self, arn_bin.err)
            ELSE IF self.key_spec = None THEN Return(self, arn_bin.val)
            ELSE WithAlgorithm(arn_bin.val, algorithm_to_bin(self))
    IN  WithArn(kms_arn_to_bin(self.arn))

\* __len__()
length(self) ==
    IF self.arn = None THEN Return(self, 0)
    ELSE IF self.key_spec = None THEN Return(self, 35)
    ELSE IF self.cipher_data = None THEN Return(self, 36)
    ELSE Return(self, 36 + get_key_bytes(self).val)

\* add_cipher_data(cipher_data): cipher_data is bytes
add_cipher_data(self, cipher_data) ==
    LET Check(key_size_bytes) ==
            IF key_size_bytes.err # "none" THEN Throw(self, key_size_bytes.err)
            ELSE IF Len(cipher_data) # key_size_bytes.val THEN Throw(self, "ValueError")
            ELSE Return([self EXCEPT !.cipher_data = Some(cipher_data)], None)
    IN  Check(get_key_bytes(self))

\* add_arn(arn=None): the new ARN is stored, then encoded as a check; only a
\* ValueError of the encoding restores the backup.
add_arn(self, arn) ==
    LET Encoded(stored, encoded) ==
            IF IsValueError(encoded.err) THEN Throw(self, encoded.err)
            ELSE IF encoded.err # "none" THEN Throw(stored, encoded.err)
            ELSE Return(stored, None)
        Store(stored) == Encoded(stored, to_binary(stored))
    IN  IF ~IsStrValue(arn) THEN Throw(self, "ValueError")
        ELSE IF ~arn_regex(arn.str).match THEN Throw(self, "ValueError")
        ELSE Store([self EXCEPT !.arn = Some(arn.str)])

\* Prefix lengths taken as a range, 16 to 36, instead of the four lengths.
partial_sizes_as_range == 16..36

\* The prefix lengths get_partial_kms_header takes.
partial_sizes == {16, 32, 35, 36}

\* get_partial_kms_header(partial_binary_kms_data): the dict is a record
\* whose fields are the keys present.
get_partial_kms_header(self, partial_binary_kms_data) ==
    LET WithAlgorithm(keyid, account, region, algorithm) ==
            IF algorithm.err # "none" THEN Throw(self, algorithm.err)
            ELSE Return(self, [keyid |-> keyid.val, account |-> account.val,
                               region |-> region.val, algorithm |-> algorithm.val])
        WithRegion(data_size, arn_hex, keyid, account, region) ==
            IF region.err # "none" THEN Throw(self, region.err)
            ELSE IF data_size # 36
            THEN Return(self, [keyid |-> keyid.val, account |-> account.val,
                               region |-> region.val])
            ELSE WithAlgorithm(keyid, account, region,
                               get_algorithm_list(SliceFrom(arn_hex, 70)))
        WithAccount(data_size, arn_hex, keyid, account) ==
            IF account.err # "none" THEN Throw(self, account.err)
            ELSE IF data_size < 35
            THEN Return(self, [keyid |-> keyid.val, account |-> account.val])
            ELSE WithRegion(data_size, arn_hex, keyid, account,
                            hex_to_region(Slice(arn_hex, 64, 70)))
        WithKeyId(data_size, arn_hex, keyid) ==
            IF keyid.err # "none" THEN Throw(self, keyid.err)
            ELSE IF data_size < 32 THEN Return(self, [keyid |-> keyid.val])
            ELSE WithAccount(data_size, arn_hex, keyid,
                             hex_to_account(Slice(arn_hex, 32, 64)))
        Inspect(data_size, arn_hex) ==
            WithKeyId(data_size, arn_hex, hex_to_keyid(Slice(arn_hex, 0, 32)))
    IN  IF ~IsBytesValue(partial_binary_kms_data) THEN Throw(self, "ValueError")
        ELSE IF Len(partial_binary_kms_data.bytes) \notin partial_sizes
        THEN Throw(self, "ValueError")
        ELSE Inspect(Len(partial_binary_kms_data.bytes),
                     hexlify(partial_binary_kms_data.bytes))

\* KMSHeader(arn_or_header=None, algorithm="RSAES_OAEP_SHA_256", key_spec=None):
\* __init__.  algorithm and key_spec are None or <<a name>>.
EmptyFields ==
    [algorithm |-> None, arn |-> None, cipher_data |-> None,
     key_spec |-> None, public_key |-> None]

KMSHeader(arn_or_header, algorithm, key_spec) ==
    LET Capture(data, parsed, max_header_bytes) ==
            IF Len(data) >= max_header_bytes
            THEN Return([parsed.self EXCEPT
                            !.cipher_data = Some(Slice(data, 36, max_header_bytes))], None)
            ELSE parsed
        Parsed(data, parsed) ==
            IF parsed.err # "none" THEN parsed
            ELSE IF parsed.self.key_spec = None THEN parsed
            ELSE Capture(data, parsed, 36 + get_key_bytes(parsed.self).val)
        Decoded(self, data, arn_data, decoded) ==
            IF decoded.err # "none" THEN Throw(self, decoded.err)
            ELSE IF Len(data) >= 36
            THEN Parsed(data, add_algorithm_hex([self EXCEPT !.arn = Some(decoded.val)],
                                                SliceFrom(arn_data, 70)))
            ELSE Parsed(data, Return([self EXCEPT !.arn = Some(decoded.val)], None))
        Hex(self, data, arn_data) ==
            Decoded(self, data, arn_data, hex_to_kms_arn(Slice(arn_data, 0, 70)))
        Binary(self, data) ==
            IF Len(data) < 35 THEN Throw(self, "ValueError")
            ELSE IF Len(data) >= 36 THEN Hex(self, data, hexlify(Slice(data, 0, 36)))
            ELSE Hex(self, data, hexlify(Slice(data, 0, 35)))
        Defaults(with_spec) ==
            IF with_spec.err # "none" THEN with_spec
            ELSE IF IsStrValue(arn_or_header) THEN add_arn(with_spec.self, arn_or_header)
            ELSE IF IsNoneValue(arn_or_header) THEN Return(with_spec.self, None)
            ELSE IF ~IsBytesValue(arn_or_header) THEN Throw(with_spec.self, "ValueError")
            ELSE Binary(with_spec.self, arn_or_header.bytes)
        Algorithm(with_alg) ==
            IF with_alg.err # "none" THEN with_alg
            ELSE Defaults(add_algorithm(with_alg.self, key_spec))
    IN  IF algorithm = None THEN Throw(EmptyFields, "ValueError")
        ELSE IF algorithm[1] \notin Elements(hash_algs) THEN Throw(EmptyFields, "ValueError")
        ELSE IF key_spec # None /\ key_spec[1] \notin Elements(key_specs)
        THEN Throw(EmptyFields, "ValueError")
        ELSE Algorithm(add_algorithm(EmptyFields, algorithm))

\* The Encryption Provider, public_key.encrypt(plain_data, OAEP(hash)): RSA-OAEP
\* takes at most key bytes - 2 * hash bytes - 2 bytes of plaintext (ValueError
\* beyond) and returns as many bytes as the key has; the bytes themselves are
\* the provider's (random padding), here `output` repeated.
hash_bytes(hash_algorithm) == IF hash_algorithm = "SHA256" THEN 32 ELSE 20
public_key_encrypt(public_key, plain_data, hash_algorithm, output) ==
    IF Len(plain_data) > public_key.key_size \div 8 - 2 * hash_bytes(hash_algorithm) - 2
    THEN Raise("ValueError")
    ELSE Ok(Fill(public_key.key_size \div 8, output))

\* self.algorithms_byte_size[self.algorithm]
algorithm_overhead(self) ==
    IF self.algorithm = None THEN Raise("KeyError")
    ELSE dict_get(algorithms_byte_size, self.algorithm[1])

\* encrypt(plain_data)
encrypt(self, plain_data, output) ==
    LET Store(cipher) ==
            IF cipher.err # "none" THEN Throw(self, cipher.err)
            ELSE add_cipher_data(self, cipher.val)
        Limit(overhead, hash_algorithm) ==
            IF overhead.err # "none" THEN Throw(self, overhead.err)
            ELSE IF Len(plain_data.bytes) > self.public_key[1].key_size \div 8 - overhead.val
            THEN Throw(self, "ValueError")
            ELSE Store(public_key_encrypt(self.public_key[1], plain_data.bytes,
                                          hash_algorithm, output))
    IN  IF ~IsBytesValue(plain_data) THEN Throw(self, "TypeError")
        ELSE IF self.public_key = None THEN Throw(self, "FileNotFoundError")
        ELSE Limit(algorithm_overhead(self),
                   IF self.algorithm = Some("RSAES_OAEP_SHA_256") THEN "SHA256" ELSE "SHA1")

\* add_public_key(public_pem).  public_pem is
\*   [rsa_public_key |-> key]  an RSAPublicKey,
\*   [pem |-> key]             a str with the PEM encoding of key,
\*   [bad_pem |-> TRUE]        a str with the PEM marker that does not decode
\*                             (load_pem_public_key raises ValueError),
\*   [path |-> key]            a str naming a file that holds the PEM
\*                             encoding of key,
\*   [bad_path |-> TRUE]       a str naming a file that does not decode,
\*   [directory |-> TRUE]      a str naming a directory (open raises),
\*   [str |-> chars]           any other str, naming nothing that exists,
\*   [bytes |-> data]          bytes naming nothing that exists,
\*   [none |-> TRUE]           None (os.path.exists raises TypeError).
\* A key is [key_size |-> bits].
add_public_key(self, public_pem) ==
    LET Sized(sized) ==
            IF IsValueError(sized.err)
            THEN Throw([sized.self EXCEPT !.public_key = self.public_key], sized.err)
            ELSE sized
        Loaded(key) ==
            Sized(add_algorithm([self EXCEPT !.public_key = Some(key)],
                                Some("RSA_" \o ToString(key.key_size))))
    IN  IF DOMAIN public_pem = {"rsa_public_key"} THEN Loaded(public_pem.rsa_public_key)
        ELSE IF DOMAIN public_pem = {"pem"} THEN Loaded(public_pem.pem)
        ELSE IF DOMAIN public_pem = {"bad_pem"} THEN Throw(self, "ValueError")
        ELSE IF IsNoneValue(public_pem) THEN Throw(self, "TypeError")
        ELSE IF DOMAIN public_pem = {"path"} THEN Loaded(public_pem.path)
        ELSE IF DOMAIN public_pem = {"bad_path"} THEN Throw(self, "ValueError")
        ELSE IF DOMAIN public_pem = {"directory"} THEN Throw(self, "IsADirectoryError")
        ELSE Throw(self, "ValueError")

\* decrypt() without the test of cipher_data: only arn and key_spec are
\* looked at before the KMS client is called.
decrypt_without_cipher_data_test(self, response) ==
    LET Answer(exchange) ==
            IF DOMAIN response = {"error"}
            THEN [err |-> response.error, self |-> self, val |-> <<>>, kms |-> <<exchange>>]
            ELSE [err |-> "none", self |-> self, val |-> response.Plaintext,
                  kms |-> <<exchange>>]
        Client(match) ==
            IF ~match.match
            THEN [err |-> "AttributeError", self |-> self, val |-> <<>>, kms |-> <<>>]
            ELSE Answer([request |->
                            [region_name |-> match.group1,
                             KeyId |-> self.arn,
                             CiphertextBlob |-> self.cipher_data,
                             EncryptionAlgorithm |-> self.algorithm],
                         response |-> response])
    IN  IF self.arn = None \/ self.key_spec = None
        THEN [err |-> "ValueError", self |-> self, val |-> <<>>, kms |-> <<>>]
        ELSE Client(arn_regex(self.arn[1]))

\* decrypt().  `response` is what kms_client.decrypt answers when it is
\* called: [Plaintext |-> bytes], or [error |-> the exception it raises].
\* The result has a fourth field, kms: the exchanges the KMS client had in
\* the call (none or one), [request |-> the keyword arguments with
\* region_name of boto3.client, response |-> the answer].  The arguments are
\* the fields as they are, None or <<value>>.
decrypt(self, response) ==
    LET Answer(exchange) ==
            IF DOMAIN response = {"error"}
            THEN [err |-> response.error, self |-> self, val |-> <<>>, kms |-> <<exchange>>]
            ELSE [err |-> "none", self |-> self, val |-> response.Plaintext,
                  kms |-> <<exchange>>]
        Client(match) ==
            IF ~match.match
            THEN [err |-> "AttributeError", self |-> self, val |-> <<>>, kms |-> <<>>]
            ELSE Answer([request |->
                            [region_name |-> match.group1,
                             KeyId |-> self.arn,
                             CiphertextBlob |-> self.cipher_data,
                             EncryptionAlgorithm |-> self.algorithm],
                         response |-> response])
    IN  IF self.arn = None \/ self.key_spec = None \/ self.cipher_data = None
        THEN [err |-> "ValueError", self |-> self, val |-> <<>>, kms |-> <<>>]
        ELSE Client(arn_regex(self.arn[1]))

----------------------------------------------------------------------------
(* The inputs of the model.                                                *)

MaxPayload == 2

RegionUsEast1 == <<"u", "s", "-", "e", "a", "s", "t", "-", "1">>
RegionUsGovWest1 == <<"u", "s", "-", "g", "o", "v", "-", "w", "e", "s", "t", "-", "1">>
RegionNoHyphen == <<"u", "s", "e", "a", "s", "t", "1">>
RegionUnknown == <<"x", "x", "-", "e", "a", "s", "t", "-", "1">>
Region4096 == <<"u", "s", "-", "e", "a", "s", "t", "-", "4", "0", "9", "6">>
Region256 == <<"u", "s", "-", "e", "a", "s", "t", "-", "2", "5", "6">>
\* a region after a line of its own: the pattern of __region_to_hex is
\* searched in the text and finds us-east-1
RegionAfterNewline == <<"a", "\n">> \o RegionUsEast1
Account12 == <<"1", "1", "1", "1", "2", "2", "2", "2", "3", "3", "3", "3">>
AccountLeadingZero == <<"0", "1", "2", "3", "4", "5", "6", "7", "8", "9", "0", "1">>
AccountLetter == <<"x">>
\* 12 after a tab, which int() skips
AccountAfterTab == <<"\t", "1", "2">>
\* 12 in extended Arabic-Indic digits, after an em space
AccountOtherScript == <<"U+2003", "U+06F1", "U+06F2">>
\* 2^132, as its 40 decimal digits
Account2Pow132 ==
    <<"5", "4", "4", "4", "5", "1", "7", "8", "7", "0", "7", "3", "5", "0",
      "1", "5", "4", "1", "5", "4", "1", "3", "9", "9", "3", "7", "1", "8",
      "9", "0", "8", "2", "9", "1", "3", "8", "3", "2", "9", "6">>
KeyIdUuid ==
    <<"1", "2", "3", "4", "a", "b", "c", "d", "-", "1", "2", "a", "b", "-",
      "3", "4", "c", "d", "-", "5", "6", "e", "f", "-",
      "1", "2", "3", "4", "5", "6", "7", "8", "9", "0", "a", "b">>
\* 36 characters, as arn_regex wants them, with no hyphen and with the first
\* hyphen moved
KeyIdNoHyphen ==
    <<"1", "2", "3", "4", "a", "b", "c", "d", "1", "2", "a", "b",
      "3", "4", "c", "d", "5", "6", "e", "f",
      "1", "2", "3", "4", "5", "6", "7", "8", "9", "0", "a", "b", "1", "2", "3", "4">>
KeyIdMovedHyphen ==
    <<"1", "2", "3", "4", "-", "a", "b", "c", "d", "1", "2", "a", "b", "-",
      "3", "4", "c", "d", "-", "5", "6", "e", "f", "-",
      "1", "2", "3", "4", "5", "6", "7", "8", "9", "0", "a", "b">>
MakeArn(region, account, keyid) ==
    ArnPrefix \o region \o <<":">> \o account \o ArnKeyMark \o keyid

\* arn:aws:kms:us-east-1:111122223333:key/1234abcd-12ab-34cd-56ef-1234567890ab
ExampleArn == MakeArn(RegionUsEast1, Account12, KeyIdUuid)

\* The ARNs of the header's life: two the header takes, and four it refuses
\* (no region of the form x-y-N, an unknown region, an account that is no
\* number, no KMS ARN).
ArnStrings ==
    { ExampleArn,
      MakeArn(RegionUsGovWest1, Account12, KeyIdUuid),
      MakeArn(RegionNoHyphen, Account12, KeyIdUuid),
      MakeArn(RegionUnknown, Account12, KeyIdUuid),
      MakeArn(RegionUsEast1, AccountLetter, KeyIdUuid),
      <<"a", "r", "n", ":", "a", "w", "s", ":", "k", "m", "s">> }

ArnArguments == {StrValue(a) : a \in ArnStrings} \cup {NoneValue}

\* The ARNs of the key reference's encoding: those above, ARNs at and
\* beyond what 16 + 16 + 3 bytes hold, and ARNs with whitespace that
\* arn_regex, the region pattern and int() let through.
ReferenceStrings ==
    ArnStrings \cup
    { MakeArn(RegionUsGovWest1, AccountLeadingZero, KeyIdUuid),
      MakeArn(Region256, Account12, KeyIdUuid),
      MakeArn(Region4096, Account12, KeyIdUuid),
      MakeArn(RegionUsEast1, Account2Pow132, KeyIdUuid),
      MakeArn(RegionUsEast1, Account12, KeyIdNoHyphen),
      MakeArn(RegionUsEast1, Account12, KeyIdMovedHyphen),
      ExampleArn \o <<"\n">>,
      MakeArn(RegionUsEast1, AccountAfterTab, KeyIdUuid),
      MakeArn(RegionUsEast1, AccountOtherScript, KeyIdUuid),
      MakeArn(RegionAfterNewline, Account12, KeyIdUuid) }

ReferenceArguments == {StrValue(a) : a \in ReferenceStrings} \cup {NoneValue}

AlgorithmArguments ==
    {None} \cup {Some(n) : n \in Keys(algorithms)} \cup {Some("RSA_1024")}

\* The byte the caller, the provider and the symmetric payload fill their
\* data with: three values, so that the origin of a byte can be told.
CallerBytes == {171}
ProviderBytes == {197}
PayloadBytes == {90}

CipherArguments == {Fill(n, b) : n \in {255, 256, 512}, b \in CallerBytes}

PlainArguments ==
    {BytesValue(Fill(n, 0)) : n \in {32, 190, 191, 214, 215}}
    \cup {StrValue(<<"x">>)}

RsaKeys == {[key_size |-> n] : n \in {1024, 2048}}
PublicPemArguments ==
    {[rsa_public_key |-> k] : k \in RsaKeys}
    \cup {[pem |-> [key_size |-> 4096]], [bad_pem |-> TRUE], StrValue(<<"x">>),
          [path |-> [key_size |-> 4096]], [path |-> [key_size |-> 1024]], NoneValue}

Payloads == {Fill(n, b) : n \in 0..MaxPayload, b \in PayloadBytes}

\* The blobs a reader is handed (encrypted_binary): a key reference, an
\* algorithm byte, cipher data of the provider and a symmetric payload, and
\* blobs cut short of that.
ExampleKeyReference == kms_arn_to_bin(Some(ExampleArn)).val
KeyReferences ==
    { ExampleKeyReference,
      kms_arn_to_bin(Some(MakeArn(RegionUsGovWest1, AccountLeadingZero, KeyIdUuid))).val,
      SubSeq(ExampleKeyReference, 1, 32) \o <<9, 9, 1>> }
AlgorithmBytes == {0, 1, 3, 4, 19, 32, 33, 34, 48}
CipherLengths == {0, 255, 256, 384, 512}
Blobs ==
    {k \o <<a>> \o Fill(n, c) \o p :
        k \in KeyReferences, a \in AlgorithmBytes, n \in CipherLengths,
        c \in ProviderBytes, p \in Payloads}
    \cup {SubSeq(ExampleKeyReference, 1, n) : n \in {0, 16, 34, 35}}
PrefixLengths == {0, 15, 16, 17, 32, 34, 35, 36, 37}

\* What the KMS client answers to decrypt: a plaintext, or an exception.
PlainBytes == {60}
KmsResponses ==
    {[Plaintext |-> Fill(n, b)] : n \in {0, 32}, b \in PlainBytes}
    \cup {[error |-> "ClientError"]}

----------------------------------------------------------------------------
(* The state: the fields of one header, the last call made on it with its  *)
(* argument, its exception and its return value, and the blob under        *)
(* inspection (encrypted_binary of the module's docstring).  kms_client   *)
(* holds the exchanges the KMS client had during the last call.            *)

VARIABLES algorithm, arn, cipher_data, key_spec, public_key,
          op, arg, err, ret, encrypted_binary, kms_client

fields == <<algorithm, arn, cipher_data, key_spec, public_key>>
vars == <<algorithm, arn, cipher_data, key_spec, public_key,
          op, arg, err, ret, encrypted_binary, kms_client>>

Self ==
    [algorithm |-> algorithm, arn |-> arn, cipher_data |-> cipher_data,
     key_spec |-> key_spec, public_key |-> public_key]

Becomes(self) ==
    /\ algorithm' = self.algorithm
    /\ arn' = self.arn
    /\ cipher_data' = self.cipher_data
    /\ key_spec' = self.key_spec
    /\ public_key' = self.public_key

\* The call `name` with argument `a` had outcome r.
Called(name, a, r) ==
    /\ Becomes(r.self)
    /\ op' = name
    /\ arg' = a
    /\ err' = r.err
    /\ ret' = r.val
    /\ kms_client' = <<>>

\* header = KMSHeader(), KMSHeader("arn:..."), KMSHeader("arn:...", algorithm, key_spec)
Constructed(a, alg, spec) ==
    \E r \in {KMSHeader(a, alg, spec)} :
        /\ r.err = "none"
        /\ algorithm = r.self.algorithm
        /\ arn = r.self.arn
        /\ cipher_data = r.self.cipher_data
        /\ key_spec = r.self.key_spec
        /\ public_key = r.self.public_key
        /\ op = "KMSHeader"
        /\ arg = a
        /\ err = "none"
        /\ ret = None
        /\ encrypted_binary = <<>>
        /\ kms_client = <<>>

Init ==
    \E a \in ArnArguments,
       alg \in {Some(n) : n \in Elements(hash_algs)} \cup {None, Some("RSA_2048")},
       spec \in {None} \cup {Some(n) : n \in Elements(key_specs)} \cup {Some("RSA_1024")} :
        Constructed(a, alg, spec)

AddArn ==
    \E a \in ArnArguments :
        /\ Called("add_arn", a, add_arn(Self, a))
        /\ UNCHANGED encrypted_binary

AddAlgorithm ==
    \E a \in AlgorithmArguments :
        /\ Called("add_algorithm", a, add_algorithm(Self, a))
        /\ UNCHANGED encrypted_binary

AddCipherData ==
    \E c \in CipherArguments :
        /\ Called("add_cipher_data", c, add_cipher_data(Self, c))
        /\ UNCHANGED encrypted_binary

AddPublicKey ==
    \E k \in PublicPemArguments :
        /\ Called("add_public_key", k, add_public_key(Self, k))
        /\ UNCHANGED encrypted_binary

\* ret is the ciphertext the provider returned, when it was asked.
Encrypt ==
    \E p \in PlainArguments, output \in ProviderBytes :
        /\ Called("encrypt", p, encrypt(Self, p, output))
        /\ UNCHANGED encrypted_binary

ToBinary ==
    /\ Called("to_binary", None, to_binary(Self))
    /\ UNCHANGED encrypted_binary

Length ==
    /\ Called("len", None, length(Self))
    /\ UNCHANGED encrypted_binary

\* KMSHeader(header.to_binary() + payload): ret is the header read back,
\* [err, self]; the header itself is left as it is.
ReadBack ==
    \E p \in Payloads, exported \in {to_binary(Self)} :
        /\ exported.err = "none"
        /\ \E again \in {KMSHeader(BytesValue(exported.val \o p),
                                   Some("RSAES_OAEP_SHA_256"), None)} :
            /\ op' = "read_back"
            /\ arg' = p
            /\ err' = again.err
            /\ ret' = again.self
            /\ kms_client' = <<>>
        /\ UNCHANGED <<fields, encrypted_binary>>

\* symmetric_keys = header.decrypt(): kms_client holds the exchange the KMS
\* client had in the call.
Decrypt ==
    \E response \in KmsResponses :
        \E r \in {decrypt(Self, response)} :
            /\ Becomes(r.self)
            /\ op' = "decrypt"
            /\ arg' = None
            /\ err' = r.err
            /\ ret' = r.val
            /\ kms_client' = r.kms
            /\ UNCHANGED encrypted_binary

Next ==
    \/ AddArn
    \/ AddAlgorithm
    \/ AddCipherData
    \/ AddPublicKey
    \/ Encrypt
    \/ ToBinary
    \/ Length
    \/ ReadBack
    \/ Decrypt

Spec == Init /\ [][Next]_vars

----------------------------------------------------------------------------
(* The key reference: a header takes ARNs, exports them and is read back.  *)

\* header = KMSHeader(), KMSHeader("arn:..."), KMSHeader("arn:...", key_spec="RSA_2048")
InitArn ==
    \E a \in ReferenceArguments, spec \in {None, Some("RSA_2048")} :
        Constructed(a, Some("RSAES_OAEP_SHA_256"), spec)

AddReference ==
    \E a \in ReferenceArguments :
        /\ Called("add_arn", a, add_arn(Self, a))
        /\ UNCHANGED encrypted_binary

NextArn ==
    \/ AddReference
    \/ ToBinary
    \/ ReadBack

SpecArn == InitArn /\ [][NextArn]_vars

----------------------------------------------------------------------------
(* Reading a blob ("Working with decryption"): an empty header inspects    *)
(* prefixes of encrypted_binary, and the header is built from the blob.    *)

\* header = KMSHeader()
InitCodec ==
    \E b \in Blobs, r \in {KMSHeader(NoneValue, Some("RSAES_OAEP_SHA_256"), None)} :
        /\ algorithm = r.self.algorithm
        /\ arn = r.self.arn
        /\ cipher_data = r.self.cipher_data
        /\ key_spec = r.self.key_spec
        /\ public_key = r.self.public_key
        /\ op = "KMSHeader"
        /\ arg = NoneValue
        /\ err = "none"
        /\ ret = None
        /\ encrypted_binary = b
        /\ kms_client = <<>>

\* header = KMSHeader(encrypted_binary); a constructor that raises leaves the
\* name `header` bound to the header it had.
Construct ==
    \E r \in {KMSHeader(BytesValue(encrypted_binary), Some("RSAES_OAEP_SHA_256"), None)} :
        /\ IF r.err = "none" THEN Becomes(r.self) ELSE UNCHANGED fields
        /\ op' = "KMSHeader"
        /\ arg' = BytesValue(encrypted_binary)
        /\ err' = r.err
        /\ ret' = None
        /\ kms_client' = <<>>
        /\ UNCHANGED encrypted_binary

\* kms_information = header.get_partial_kms_header(encrypted_binary[:n])
Inspect ==
    \E a \in {BytesValue(Slice(encrypted_binary, 0, n)) : n \in PrefixLengths}
              \cup {StrValue(<<"x">>)} :
        /\ Called("get_partial_kms_header", a, get_partial_kms_header(Self, a))
        /\ UNCHANGED encrypted_binary

NextCodec ==
    \/ Construct
    \/ Inspect

SpecCodec == InitCodec /\ [][NextCodec]_vars

----------------------------------------------------------------------------
(* The properties of the header's life (Spec).                             *)

\* C1: in every state the constructor, the setters and encrypt reach,
\* cipher_data is absent or exactly as long as the cipher of the current
\* key_spec (256, 384, 512 bytes for RSA_2048, RSA_3072, RSA_4096).
C1_CipherDataFitsKeySpec ==
    cipher_data # None =>
        /\ key_spec # None
        /\ Len(cipher_data[1]) = get_key_bytes(Self).val

\* The state that breaks C1: 256 bytes of cipher data were stored under
\* RSA_2048 and add_algorithm then made the key spec RSA_4096.
C1_KeySpecChangedUnderCipherData ==
    /\ op = "add_algorithm"
    /\ err = "none"
    /\ key_spec = Some("RSA_4096")
    /\ cipher_data # None
    /\ Len(cipher_data[1]) = 256

\* C2: len(header) is the number of bytes to_binary() returns, and 0 for a
\* header with no ARN.
C2_LenIsBinarySize ==
    LET Sized(binary) ==
            /\ err = "none"
            /\ arn = None => ret = 0
            /\ binary.err = "none" => ret = Len(binary.val)
    IN  op = "len" => Sized(to_binary(Self))

\* A state that breaks C2: len(header) is 36 + 512 while to_binary() returns
\* 36 + 256 bytes.
C2_LenBeyondBinary ==
    /\ op = "len"
    /\ ret = 548
    /\ to_binary(Self).err = "none"
    /\ Len(to_binary(Self).val) = 292

\* C3: a header with ARN, algorithm, key_spec and cipher_data, exported with
\* to_binary() and read back with any payload after it, gives a header with
\* the same four fields whose length is that of the exported bytes.
C3_FullHeaderRoundTrip ==
    (op = "read_back" /\ arn # None /\ algorithm # None
        /\ key_spec # None /\ cipher_data # None) =>
        /\ err = "none"
        /\ ret.arn = arn
        /\ ret.algorithm = algorithm
        /\ ret.key_spec = key_spec
        /\ ret.cipher_data = cipher_data
        /\ length(ret).val = Len(to_binary(Self).val)

\* A state that breaks C3: the header read back has no cipher data.
C3_CipherDataLost ==
    /\ op = "read_back"
    /\ err = "none"
    /\ arn # None /\ algorithm # None /\ key_spec # None /\ cipher_data # None
    /\ ret.arn = arn
    /\ ret.cipher_data = None

\* C6: a setter (add_arn, add_algorithm, add_cipher_data, add_public_key)
\* that raises leaves every field of the header as it was before the call.
C6_FailedSetterChangesNothing ==
    [][(op' \in {"add_arn", "add_algorithm", "add_cipher_data", "add_public_key"}
            /\ err' # "none")
        => fields' = fields]_vars

\* A state that breaks C6: add_arn raised AttributeError and the header
\* holds the ARN it refused.
C6_RefusedArnStored ==
    /\ op = "add_arn"
    /\ err = "AttributeError"
    /\ arn = Some(arg.str)
    /\ arn = Some(MakeArn(RegionNoHyphen, Account12, KeyIdUuid))

\* C7 as the code has it: the header of the example ARN with RSA_2048 and
\* RSAES_OAEP_SHA_256 and no cipher data serializes to 36 bytes, the last of
\* which is 0x21 (33): 0x20 for the algorithm, 0x01 for the key spec.
C7_ExampleEndsWith0x21 ==
    (op = "to_binary" /\ arn = Some(ExampleArn) /\ key_spec = Some("RSA_2048")
        /\ algorithm = Some("RSAES_OAEP_SHA_256") /\ cipher_data = None) =>
        /\ err = "none"
        /\ Len(ret) = 36
        /\ ret[36] = 33

\* C7 as claimed: the last of the 36 bytes is 0x22 (34).
C7_ExampleEndsWith0x22 ==
    (op = "to_binary" /\ arn = Some(ExampleArn) /\ key_spec = Some("RSA_2048")
        /\ algorithm = Some("RSAES_OAEP_SHA_256") /\ cipher_data = None) =>
        /\ err = "none"
        /\ Len(ret) = 36
        /\ ret[36] = 34

\* The example header has been serialized.
C7_ExampleSerialized ==
    /\ op = "to_binary"
    /\ err = "none"
    /\ arn = Some(ExampleArn)
    /\ key_spec = Some("RSA_2048")
    /\ algorithm = Some("RSAES_OAEP_SHA_256")
    /\ cipher_data = None
    /\ Len(ret) = 36

\* C10: with a public key, an algorithm and a key spec set, encrypt of more
\* bytes than cipher_len(key_spec) - overhead(algorithm) raises and leaves
\* cipher_data as it was; encrypt of fewer succeeds and stores the
\* provider's ciphertext, cipher_len(key_spec) bytes long.
C10_EncryptLimit ==
    [][(op' = "encrypt" /\ IsBytesValue(arg') /\ public_key # None
            /\ algorithm # None /\ key_spec # None)
        => IF Len(arg'.bytes) > get_key_bytes(Self).val - algorithm_overhead(Self).val
           THEN /\ err' # "none"
                /\ cipher_data' = cipher_data
           ELSE /\ err' = "none"
                /\ cipher_data' # None
                /\ Len(cipher_data'[1]) = get_key_bytes(Self).val
                /\ \A i \in 1..Len(cipher_data'[1]) : cipher_data'[1][i] \in ProviderBytes]_vars

\* A state that breaks C10: 32 bytes were refused under a 2048-bit public
\* key and key spec RSA_4096.
C10_SmallPlaintextRefused ==
    /\ op = "encrypt"
    /\ err = "ValueError"
    /\ IsBytesValue(arg)
    /\ Len(arg.bytes) = 32
    /\ public_key = Some([key_size |-> 2048])
    /\ key_spec = Some("RSA_4096")

\* C11: decrypt() calls the KMS client only when arn, key_spec and
\* cipher_data are all present; the call carries the header's arn,
\* cipher_data and algorithm (in the region of the arn), and what the client
\* answers is returned as it is.  When one of the three is absent the call
\* fails and the client is not called.  The header is the same afterwards.
C11_DecryptNeedsCompleteHeader ==
    [][op' = "decrypt" =>
        /\ fields' = fields
        /\ Len(kms_client') <= 1
        /\ kms_client' # <<>> =>
              /\ arn # None /\ key_spec # None /\ cipher_data # None
              /\ kms_client'[1].request.KeyId = arn
              /\ kms_client'[1].request.CiphertextBlob = cipher_data
              /\ kms_client'[1].request.EncryptionAlgorithm = algorithm
              /\ kms_client'[1].request.region_name = arn_regex(arn[1]).group1
              /\ IF "Plaintext" \in DOMAIN kms_client'[1].response
                 THEN err' = "none" /\ ret' = kms_client'[1].response.Plaintext
                 ELSE err' = kms_client'[1].response.error
        /\ (arn = None \/ key_spec = None \/ cipher_data = None) =>
              err' # "none" /\ kms_client' = <<>>
    ]_vars

\* A complete header was decrypted: the client was asked with the 256 bytes
\* of cipher data and its 32 bytes came back.
C11_Decrypted ==
    /\ op = "decrypt"
    /\ err = "none"
    /\ Len(kms_client) = 1
    /\ kms_client[1].request.KeyId = Some(ExampleArn)
    /\ kms_client[1].request.region_name = RegionUsEast1
    /\ cipher_data # None
    /\ kms_client[1].request.CiphertextBlob = cipher_data
    /\ Len(cipher_data[1]) = 256
    /\ Len(ret) = 32
    /\ ret = kms_client[1].response.Plaintext

----------------------------------------------------------------------------
(* The properties of the key reference (SpecArn).                          *)

\* C4: KMSHeader(KMSHeader(s).to_binary()).get_arn() is s, for every ARN s
\* the header accepted.
C4_ArnRoundTrip ==
    (op = "read_back" /\ arg = <<>> /\ key_spec = None /\ cipher_data = None) =>
        /\ err = "none"
        /\ ret.arn = arn

\* A state that breaks C4: the account 012345678901 is read back as
\* 12345678901.
C4_LeadingZeroLost ==
    /\ op = "read_back"
    /\ arg = <<>>
    /\ err = "none"
    /\ arn = Some(MakeArn(RegionUsGovWest1, AccountLeadingZero, KeyIdUuid))
    /\ ret.arn = Some(MakeArn(RegionUsGovWest1, Tail(AccountLeadingZero), KeyIdUuid))

\* C8: whenever an ARN was accepted and to_binary() returns, the encoded key
\* reference is exactly 35 bytes; an ARN whose region ordinal, account or key
\* id does not fit is refused instead.
C8_KeyReferenceIs35Bytes ==
    (op = "to_binary" /\ err = "none") => Len(kms_arn_to_bin(arn).val) = 35

\* A state that breaks C8: region us-east-4096 was accepted and the key
\* reference alone is 36 bytes.
C8_RegionOrdinal4096Encoded ==
    /\ op = "to_binary"
    /\ err = "none"
    /\ arn = Some(MakeArn(Region4096, Account12, KeyIdUuid))
    /\ key_spec = None
    /\ Len(ret) = 36

----------------------------------------------------------------------------
(* The properties of reading a blob (SpecCodec).                           *)

\* C5: for a blob b of 36 bytes or more that the constructor accepts,
\* get_partial_kms_header of b[:16], b[:32], b[:35] and b[:36] returns, and
\* what it returns equals the fields of KMSHeader(b): the key id, account and
\* region are those of its ARN, and the names b[:36] gives are its key spec
\* and its algorithm.
C5_PartialAgreesWithHeader ==
    LET Parts(header) == arn_regex(header.arn[1])
        Agree(header, size) ==
            /\ err = "none"
            /\ ret.keyid = Parts(header).group3
            /\ size >= 32 => ret.account = Parts(header).group2
            /\ size >= 35 => ret.region = Parts(header).group1
            /\ size = 36 => ret.algorithm = header.key_spec \o header.algorithm
        Built(header) ==
            header.err = "none" => Agree(header.self, Len(arg.bytes))
    IN  (op = "get_partial_kms_header" /\ IsBytesValue(arg)
            /\ Len(arg.bytes) \in {16, 32, 35, 36} /\ Len(encrypted_binary) >= 36)
        => Built(KMSHeader(BytesValue(encrypted_binary),
                           Some("RSAES_OAEP_SHA_256"), None))

\* A state that breaks C5: the first 36 bytes of a blob with algorithm byte
\* 0x01 were inspected and name the key spec only, and the header built from
\* the blob has the algorithm RSAES_OAEP_SHA_256.
C5_InspectedKeySpecOnly ==
    LET Built(header) ==
            /\ header.err = "none"
            /\ header.self.key_spec = Some("RSA_2048")
            /\ header.self.algorithm = Some("RSAES_OAEP_SHA_256")
    IN  /\ op = "get_partial_kms_header"
        /\ err = "none"
        /\ IsBytesValue(arg)
        /\ Len(arg.bytes) = 36
        /\ encrypted_binary[36] = 1
        /\ ret.algorithm = <<"RSA_2048">>
        /\ ret.region = RegionUsEast1
        /\ Built(KMSHeader(BytesValue(encrypted_binary),
                           Some("RSAES_OAEP_SHA_256"), None))

\* C9: get_partial_kms_header raises for every argument that is not 16, 32,
\* 35 or 36 bytes; what it returns has exactly the keys keyid (16 bytes),
\* keyid and account (32), keyid, account and region (35), and those with
\* algorithm (36); and no field of the header changes.
C9_PartialSizesAndKeys ==
    [][op' = "get_partial_kms_header" =>
        /\ fields' = fields
        /\ IF IsBytesValue(arg') /\ Len(arg'.bytes) \in {16, 32, 35, 36}
           THEN err' = "none" =>
                    DOMAIN ret' =
                        CASE Len(arg'.bytes) = 16 -> {"keyid"}
                          [] Len(arg'.bytes) = 32 -> {"keyid", "account"}
                          [] Len(arg'.bytes) = 35 -> {"keyid", "account", "region"}
                          [] Len(arg'.bytes) = 36 ->
                                {"keyid", "account", "region", "algorithm"}
           ELSE err' # "none"]_vars

\* A header built from a blob has inspected 35 bytes of it.
C9_Inspected35 ==
    /\ op = "get_partial_kms_header"
    /\ err = "none"
    /\ arn # None
    /\ key_spec # None
    /\ Len(arg.bytes) = 35
    /\ DOMAIN ret = {"keyid", "account", "region"}

\* C12: KMSHeader(bytes) fills the header in stages.  Fewer than 35 bytes
\* are refused.  From exactly 35 bytes only the ARN is read, and len is 35.
\* From 36 bytes or more the byte at offset 35 is read as the algorithm byte
\* too.  cipher_data is bytes 36 .. 36 + key bytes when a key spec was read
\* and that many bytes are there; otherwise cipher_data stays None and len
\* is 36.
C12_ConstructedInStages ==
    LET data_size == Len(encrypted_binary)
        size == length(Self).val
        max_header_bytes == 36 + get_key_bytes(Self).val
        NibbleName(nibble_id) == Some(algorithm_name(SmallInt(nibble_id)).val)
    IN  (op = "KMSHeader" /\ IsBytesValue(arg)) =>
            /\ data_size < 35 => err = "ValueError"
            /\ (err = "none" /\ data_size = 35) =>
                  /\ arn # None
                  /\ key_spec = None
                  /\ cipher_data = None
                  /\ size = 35
            /\ (err = "none" /\ data_size >= 36) =>
                  /\ arn # None
                  /\ key_spec = IF encrypted_binary[36] % 16 = 0 THEN None
                                ELSE NibbleName(encrypted_binary[36] % 16)
                  /\ encrypted_binary[36] \div 16 # 0 =>
                        algorithm = NibbleName((encrypted_binary[36] \div 16) * 16)
                  /\ IF key_spec # None /\ data_size >= max_header_bytes
                     THEN cipher_data = Some(SubSeq(encrypted_binary, 37, max_header_bytes))
                     ELSE cipher_data = None /\ size = 36

\* A blob of 36 bytes or more with algorithm byte 0x20 was read: no key
\* spec, no cipher data, and len is 35.
C12_AlgorithmOnlyBlobHasLength35 ==
    /\ op = "KMSHeader"
    /\ IsBytesValue(arg)
    /\ err = "none"
    /\ Len(encrypted_binary) >= 36
    /\ encrypted_binary[36] = 32
    /\ arn = Some(ExampleArn)
    /\ algorithm = Some("RSAES_OAEP_SHA_256")
    /\ key_spec = None
    /\ cipher_data = None
    /\ length(Self).val = 35

\* C13: the two nibbles of the algorithm byte are read independently, and a
\* nibble that is the code of no entry of the algorithms table gives None
\* for its half, never an exception: the header read from a blob has the key
\* spec of the lower nibble, or None, and the algorithm of the upper nibble,
\* or None (0x01: RSA_2048 and no algorithm; 0x20: RSAES_OAEP_SHA_256 and no
\* key spec), and get_partial_kms_header of the first 36 bytes names the same
\* halves.
C13_NibblesDecodedIndependently ==
    LET Entry(name) == IF name.err = "none" THEN Some(name.val) ELSE None
        Half(nibble_id) == Entry(algorithm_name(SmallInt(nibble_id)))
        KeySpecHalf == Half(encrypted_binary[36] % 16)
        AlgorithmHalf == Half((encrypted_binary[36] \div 16) * 16)
        ReferenceRead ==
            /\ Len(encrypted_binary) >= 36
            /\ KMSHeader(BytesValue(SubSeq(encrypted_binary, 1, 35)),
                         Some("RSAES_OAEP_SHA_256"), None).err = "none"
    IN  /\ (op = "KMSHeader" /\ IsBytesValue(arg) /\ ReferenceRead) =>
              /\ err = "none"
              /\ key_spec = KeySpecHalf
              /\ algorithm = AlgorithmHalf
        /\ (op = "get_partial_kms_header" /\ IsBytesValue(arg)
                /\ Len(arg.bytes) = 36 /\ ReferenceRead) =>
              /\ err = "none"
              /\ ret.algorithm = KeySpecHalf \o AlgorithmHalf

\* A blob with algorithm byte 0x01 was read: the key spec is RSA_2048 and the
\* algorithm is the one the constructor starts with.
C13_KeySpecOnlyByteRead ==
    /\ op = "KMSHeader"
    /\ IsBytesValue(arg)
    /\ err = "none"
    /\ Len(encrypted_binary) >= 36
    /\ encrypted_binary[36] = 1
    /\ arn = Some(ExampleArn)
    /\ key_spec = Some("RSA_2048")
    /\ algorithm = Some("RSAES_OAEP_SHA_256")

====
